---- MODULE Spec2Model ----
(***************************************************************************)
(* Model of the factory simulation engine (class FactorySimulation in      *)
(* src/js/scene.js) together with the browser timer queue that drives it.  *)
(*                                                                         *)
(* Numbers: sensor values and battery levels are JavaScript doubles.  They *)
(* are modelled in fixed point, as integers counting hundredths (Scale),   *)
(* so 42.0 kW is 4200.  Math.random() is modelled as a value r in 0..99    *)
(* standing for r/100, which is a subset of [0,1).  Time is in ms.         *)
(***************************************************************************)
EXTENDS Integers, Sequences, FiniteSets, Bags, TLC

\* ------------------------------------------------------------------ bounds
\* Ticks of simulated time the model runs for (time horizon = MaxTicks ticks).
MaxTicks == 4
\* executeAction calls in one behaviour.
MaxActions == 2
\* start() calls in one behaviour.
MaxStarts == 2
\* Ticks of simulated time and executeAction calls of the long runs (a fault
\* left to run until its channel hits a clamp): SpecSensors and SpecLong.
SensorTicks == 9
SensorActions == 1
LongTicks == 9
LongActions == 3
\* Ticks of simulated time and executeAction calls of the specification of
\* overlapping delayed restarts.
RestartTicks == 3
RestartActions == 3
\* Ticks of simulated time and executeAction calls of the specification of
\* pausing and resuming the line.
ResumeTicks == 5
ResumeActions == 3
\* Ticks of simulated time and executeAction calls of the specification of
\* the scenario scheduling guard.
ScheduleTicks == 4
ScheduleActions == 5
\* Ticks of simulated time and executeAction calls of the specification of
\* remediation followed by the delayed restart.
RemedyTicks == 4
RemedyActions == 2
\* Ticks of simulated time of the specification of fault perturbations
\* under extreme draws.
PerturbTicks == 3
\* Ticks of simulated time and executeAction calls of the specification of
\* the engine with auto-stop enabled.
AutoStopTicks == 18
AutoStopActions == 1
\* Ticks of simulated time of the specification in which the adapter
\* classifies the readings of running faults, and the largest reading (in
\* units, either sign) the two classifications are compared on.
ClassifyTicks == 9
MaxReading == 250
\* Ticks of simulated time and accepted function calls of the specification
\* of the AI adapter.
AdapterTicks == 3
AdapterActions == 1
\* Ticks of simulated time and executeAction calls of the specification of a
\* paused line under ambient noise.
PausedTicks == 4
PausedActions == 1
\* Ticks of simulated time of the run that fills the sensor history past its
\* capacity.
HistoryTicks == 62
\* Ticks of simulated time of the specification of start() and stop() calls.
LifecycleTicks == 4
\* Ticks of simulated time and executeAction calls of the specification of
\* repeated cooling requests.
CoolingTicks == 8
CoolingActions == 2

\* ------------------------------------------------------- program constants
TICK_INTERVAL == 6000
STARTUP_STABLE_DURATION == 15000
SCENARIO_DELAY == 10000
POWER_NOMINAL_MIN == 38
POWER_WARNING_LOW == 38
POWER_CRITICAL_LOW == 32
PRESSURE_NOMINAL_MIN == 135
PRESSURE_WARNING_LOW == 135
PRESSURE_CRITICAL_LOW == 125
TEMPERATURE_NOMINAL_MAX == 75
TEMPERATURE_WARNING_THRESHOLD == 75
TEMPERATURE_CRITICAL_THRESHOLD == 85
COOLING_DEFAULT == 30
PENALTY_WARNING == 10
PENALTY_CRITICAL == 25
PENALTY_TREND == 5
THRESHOLD_NORMAL == 86
THRESHOLD_DEGRADED == 71
MAX_DATA_POINTS == 60
AUTO_STOP_ENABLED == FALSE
AUTO_STOP_CRITICAL_TICKS == 10
BACKUP_DELAY == 2000
PRESSURE_RAMP_DURATION == 5000
COOLING_RAMP_DURATION == 10000
RAMP_STEPS == 10
BATTERY_RECHARGE_RATE == 2
POWER_NOMINAL == 42
PRESSURE_NOMINAL == 140
TEMPERATURE_NOMINAL == 70
POWER_MIN == 0
POWER_MAX == 100
PRESSURE_MIN == 100
PRESSURE_MAX == 200
TEMPERATURE_MIN == 20
TEMPERATURE_MAX == 120
BATTERY_FULL == 100
TELEMETRY_INTERVAL == 3000
MIN_TELEMETRY_BEFORE_ALERT == 5
FUNCTION_NAME == "factory_control"

\* Fixed point: one unit of a sensor or battery is Scale hundredths.
Scale == 10 * 10

States == {"NORMAL", "DEGRADED", "CRITICAL", "PAUSED"}
FaultKinds == {"POWER_SAG", "PRESSURE_DRIFT", "OVERHEAT"}
ActionNames == {"switch_backup_power", "increase_pressure", "decrease_pressure",
                "increase_cooling", "pause_line", "resume_line"}

\* ------------------------------------------------------------------- state
VARIABLES
    now,        \* Date.now(), ms since the engine was constructed (startTime = 0)
    sim,        \* the fields of the FactorySimulation object
    timers,     \* bag of pending setTimeout / setInterval callbacks
    telemetry,  \* the snapshot dispatched by emitTelemetry in this step, if any
    result,     \* the value returned by executeAction in this step, if any
    last,       \* what the last step did (observer, not program state)
    obs,        \* observer: action/start counts, time the scenario last stopped
    adapter     \* the fields of the AIIntegration object that its handlers write

vars == <<now, sim, timers, telemetry, result, last, obs, adapter>>

Min(a, b) == IF a < b THEN a ELSE b
Max(a, b) == IF a > b THEN a ELSE b

\* ------------------------------------------------------------ construction
NoScenario == [type |-> "NONE", active |-> FALSE, tickCount |-> 0]

InitSensors == [power |-> POWER_NOMINAL * Scale,
                pressure |-> PRESSURE_NOMINAL * Scale,
                temperature |-> TEMPERATURE_NOMINAL * Scale]

Constructor ==
    [state |-> "NORMAL",
     stability |-> 100,
     sensors |-> InitSensors,
     previousSensors |-> InitSensors,
     cooling |-> COOLING_DEFAULT,
     backupPower |-> FALSE,
     mainBatteryLevel |-> BATTERY_FULL * Scale,
     backupBatteryLevel |-> BATTERY_FULL * Scale,
     activeScenario |-> NoScenario,
     tickCount |-> 0,
     criticalTickCount |-> 0,
     stableTickCount |-> 0,
     lastScenarioEndTime |-> 0,
     scenarioScheduled |-> FALSE,
     sensorHistory |-> << >>,
     tickInterval |-> 0]

\* The AIIntegration object after its constructor (spacesInstance = null is
\* FALSE).
AIConstructor ==
    [spacesInstance |-> FALSE,
     telemetrySendCount |-> 0,
     lastState |-> "NORMAL",
     lastStability |-> 100,
     lastSensorStatus |-> [power |-> "NOMINAL", pressure |-> "NOMINAL",
                           temperature |-> "NOMINAL"]]

\* ------------------------------------------------------------ pure helpers
\* getSensorStatus on a value v of the named channel.
SensorStatusOf(name, v) ==
    IF name = "temperature"
    THEN IF v >= TEMPERATURE_CRITICAL_THRESHOLD * Scale THEN "critical"
         ELSE IF v >= TEMPERATURE_WARNING_THRESHOLD * Scale THEN "warning"
         ELSE "normal"
    ELSE IF name = "power"
    THEN IF v <= POWER_CRITICAL_LOW * Scale THEN "critical"
         ELSE IF v <= POWER_WARNING_LOW * Scale THEN "warning"
         ELSE "normal"
    ELSE IF v <= PRESSURE_CRITICAL_LOW * Scale THEN "critical"
         ELSE IF v <= PRESSURE_WARNING_LOW * Scale THEN "warning"
         ELSE "normal"

GetSensorStatus(e, name) == SensorStatusOf(name, e.sensors[name])

\* Mutant of AIGetSensorStatus: a reading exactly on a threshold falls in the
\* milder class.
AIGetSensorStatusStrict(sensorName, v) ==
    IF sensorName = "temperature"
    THEN IF v > TEMPERATURE_CRITICAL_THRESHOLD * Scale THEN "CRITICAL"
         ELSE IF v > TEMPERATURE_WARNING_THRESHOLD * Scale THEN "WARNING"
         ELSE "NOMINAL"
    ELSE IF sensorName = "power"
    THEN IF v < POWER_CRITICAL_LOW * Scale THEN "CRITICAL"
         ELSE IF v < POWER_WARNING_LOW * Scale THEN "WARNING"
         ELSE "NOMINAL"
    ELSE IF v < PRESSURE_CRITICAL_LOW * Scale THEN "CRITICAL"
         ELSE IF v < PRESSURE_WARNING_LOW * Scale THEN "WARNING"
         ELSE "NOMINAL"

\* AIIntegration.getSensorStatus on a value v of the named channel.
AIGetSensorStatus(sensorName, v) ==
    IF sensorName = "temperature"
    THEN IF v >= TEMPERATURE_CRITICAL_THRESHOLD * Scale THEN "CRITICAL"
         ELSE IF v >= TEMPERATURE_WARNING_THRESHOLD * Scale THEN "WARNING"
         ELSE "NOMINAL"
    ELSE IF sensorName = "power"
    THEN IF v <= POWER_CRITICAL_LOW * Scale THEN "CRITICAL"
         ELSE IF v <= POWER_WARNING_LOW * Scale THEN "WARNING"
         ELSE "NOMINAL"
    ELSE IF v <= PRESSURE_CRITICAL_LOW * Scale THEN "CRITICAL"
         ELSE IF v <= PRESSURE_WARNING_LOW * Scale THEN "WARNING"
         ELSE "NOMINAL"

\* The adapter fields after sendTelemetry() has read the snapshot snap: the
\* send count grows, and the sensor statuses are tracked only once the
\* startup phase is over.  The alert text goes to the avatar SDK and touches
\* no field.
SendTelemetryFields(ad, snap) ==
    LET count == ad.telemetrySendCount + 1
        tracked == [ad EXCEPT !.telemetrySendCount = count,
                              !.lastState = snap.state,
                              !.lastStability = snap.stability]
    IN  IF count <= MIN_TELEMETRY_BEFORE_ALERT THEN tracked
        ELSE [tracked EXCEPT !.lastSensorStatus =
                 [power |-> AIGetSensorStatus("power", snap.sensors.power),
                  pressure |-> AIGetSensorStatus("pressure", snap.sensors.pressure),
                  temperature |-> AIGetSensorStatus("temperature",
                                                    snap.sensors.temperature)]]

\* A JavaScript value that `!x` and `x || d` treat as absent.
Falsy(x) == x \in {"undefined", ""}

\* The two message types in which handleOnData recognises a function call.
CallFormats == {"NAPSTER_SPACES_FUNCTION_CALL", "NAPSTER_SPACES_DATA_MESSAGES"}

\* The name handleOnData hands to handleFunctionCall: the DATA_MESSAGES
\* format fills a missing name with the configured one.
ResolvedName(format, name) ==
    IF format = "NAPSTER_SPACES_DATA_MESSAGES" /\ Falsy(name)
    THEN FUNCTION_NAME ELSE name

\* Mutant of CallAccepted: the function name is not looked at.
CallAcceptedAnyName(name, action) == ~Falsy(action)

\* handleFunctionCall and processControlAction reach executeAction only for
\* the configured function name and an action that is present.
CallAccepted(name, action) == name = FUNCTION_NAME /\ ~Falsy(action)

AnyStatus(e, st) ==
    \/ GetSensorStatus(e, "power") = st
    \/ GetSensorStatus(e, "pressure") = st
    \/ GetSensorStatus(e, "temperature") = st

\* The state that updateState / resumeLine derive from a stability score.
StateOfScore(score) ==
    IF score >= THRESHOLD_NORMAL THEN "NORMAL"
    ELSE IF score >= THRESHOLD_DEGRADED THEN "DEGRADED"
    ELSE "CRITICAL"

Clamp(lo, hi, v) == Max(lo, Min(hi, v))

\* ------------------------------------------------------------- tick phases
StartRandomScenario(e, kind) ==
    [e EXCEPT !.activeScenario = [type |-> kind, active |-> TRUE, tickCount |-> 0]]

\* Mutant of ManageScenarios: a scenario lasts one tick and then expires.
ManageScenariosExpiring(e, elapsed, t, kind) ==
    IF elapsed < STARTUP_STABLE_DURATION
    THEN [e EXCEPT !.stableTickCount = @ + 1]
    ELSE IF e.state = "PAUSED" THEN e
    ELSE IF e.scenarioScheduled THEN e
    ELSE IF ~e.activeScenario.active
    THEN IF t - e.lastScenarioEndTime >= SCENARIO_DELAY
         THEN StartRandomScenario(e, kind)
         ELSE e
    ELSE [e EXCEPT !.activeScenario = NoScenario, !.lastScenarioEndTime = t]

\* Mutant of ManageScenarios: the startup period is as long as the scenario
\* delay.
ManageScenariosShortStartup(e, elapsed, t, kind) ==
    IF elapsed < SCENARIO_DELAY
    THEN [e EXCEPT !.stableTickCount = @ + 1]
    ELSE IF e.state = "PAUSED" THEN e
    ELSE IF e.scenarioScheduled THEN e
    ELSE IF ~e.activeScenario.active
    THEN IF t - e.lastScenarioEndTime >= SCENARIO_DELAY
         THEN StartRandomScenario(e, kind)
         ELSE e
    ELSE [e EXCEPT !.activeScenario.tickCount = @ + 1]

ManageScenarios(e, elapsed, t, kind) ==
    IF elapsed < STARTUP_STABLE_DURATION
    THEN [e EXCEPT !.stableTickCount = @ + 1]
    ELSE IF e.state = "PAUSED" THEN e
    ELSE IF e.scenarioScheduled THEN e
    ELSE IF ~e.activeScenario.active
    THEN IF t - e.lastScenarioEndTime >= SCENARIO_DELAY
         THEN StartRandomScenario(e, kind)
         ELSE e
    ELSE [e EXCEPT !.activeScenario.tickCount = @ + 1]

\* Mutant of Recharge: the recharge is not capped at a full battery.
RechargeUncapped(e) ==
    IF e.backupPower
    THEN IF e.mainBatteryLevel < BATTERY_FULL * Scale
         THEN [e EXCEPT !.mainBatteryLevel = @ + BATTERY_RECHARGE_RATE * Scale]
         ELSE e
    ELSE IF e.backupBatteryLevel < BATTERY_FULL * Scale
         THEN [e EXCEPT !.backupBatteryLevel = @ + BATTERY_RECHARGE_RATE * Scale]
         ELSE e

\* Battery recharge of the inactive battery (first block of updateSensors).
Recharge(e) ==
    IF e.backupPower
    THEN IF e.mainBatteryLevel < BATTERY_FULL * Scale
         THEN [e EXCEPT !.mainBatteryLevel =
                   Min(BATTERY_FULL * Scale, @ + BATTERY_RECHARGE_RATE * Scale)]
         ELSE e
    ELSE IF e.backupBatteryLevel < BATTERY_FULL * Scale
         THEN [e EXCEPT !.backupBatteryLevel =
                   Min(BATTERY_FULL * Scale, @ + BATTERY_RECHARGE_RATE * Scale)]
         ELSE e

\* Mutant of Perturb: an OVERHEAT also lowers the pressure.
PerturbSpillsOver(e, rDrop, rDrain) ==
    LET scenario == IF e.activeScenario.active THEN e.activeScenario.type ELSE "null"
    IN  IF scenario = "POWER_SAG"
        THEN LET drop == 4 * rDrop + 2 * Scale
                 batteryDrain == 8 * rDrain + 5 * Scale
                 e1 == [e EXCEPT !.sensors.power = @ - drop]
             IN  IF e.backupPower
                 THEN [e1 EXCEPT !.backupBatteryLevel = Max(0, @ - batteryDrain)]
                 ELSE [e1 EXCEPT !.mainBatteryLevel = Max(0, @ - batteryDrain)]
        ELSE IF scenario = "PRESSURE_DRIFT"
        THEN [e EXCEPT !.sensors.pressure = @ - (3 * rDrop + 2 * Scale)]
        ELSE IF scenario = "OVERHEAT"
        THEN [e EXCEPT !.sensors.temperature = @ + (2 * rDrop + 2 * Scale),
                       !.sensors.pressure = @ - (3 * rDrop + 2 * Scale)]
        ELSE e

\* The scenario's perturbation of its channel; rDrop and rDrain are the two
\* Math.random() draws of the POWER_SAG branch (rDrop alone for the others).
Perturb(e, rDrop, rDrain) ==
    LET scenario == IF e.activeScenario.active THEN e.activeScenario.type ELSE "null"
    IN  IF scenario = "POWER_SAG"
        THEN LET drop == 4 * rDrop + 2 * Scale
                 batteryDrain == 8 * rDrain + 5 * Scale
                 e1 == [e EXCEPT !.sensors.power = @ - drop]
             IN  IF e.backupPower
                 THEN [e1 EXCEPT !.backupBatteryLevel = Max(0, @ - batteryDrain)]
                 ELSE [e1 EXCEPT !.mainBatteryLevel = Max(0, @ - batteryDrain)]
        ELSE IF scenario = "PRESSURE_DRIFT"
        THEN [e EXCEPT !.sensors.pressure = @ - (3 * rDrop + 2 * Scale)]
        ELSE IF scenario = "OVERHEAT"
        THEN [e EXCEPT !.sensors.temperature = @ + (2 * rDrop + 2 * Scale)]
        ELSE e

\* Ambient noise: (Math.random() - 0.5) * 2 for power and pressure, * 1 for
\* temperature.
Noise(e, rP, rT, rPr) ==
    [e EXCEPT !.sensors.power = @ + (rP - 50) * 2,
              !.sensors.temperature = @ + (rT - 50),
              !.sensors.pressure = @ + (rPr - 50) * 2]

\* Mutant of ClampSensors: the lower limits are forgotten (Math.min alone).
ClampSensorsUpperOnly(e) ==
    [e EXCEPT !.sensors.power = Min(POWER_MAX * Scale, @),
              !.sensors.pressure = Min(PRESSURE_MAX * Scale, @),
              !.sensors.temperature = Min(TEMPERATURE_MAX * Scale, @)]

ClampSensors(e) ==
    [e EXCEPT !.sensors.power = Clamp(POWER_MIN * Scale, POWER_MAX * Scale, @),
              !.sensors.pressure = Clamp(PRESSURE_MIN * Scale, PRESSURE_MAX * Scale, @),
              !.sensors.temperature =
                  Clamp(TEMPERATURE_MIN * Scale, TEMPERATURE_MAX * Scale, @)]

UpdateSensors(e, rDrop, rDrain, rP, rT, rPr) ==
    ClampSensors(Noise(Perturb(Recharge(e), rDrop, rDrain), rP, rT, rPr))

Trend(e) ==
    /\ Len(e.sensorHistory) >= 2
    /\ LET prev == e.sensorHistory[Len(e.sensorHistory)]
       IN  \/ /\ e.sensors.power - prev.power < 0
              /\ e.sensors.power < POWER_NOMINAL_MIN * Scale
           \/ /\ e.sensors.pressure - prev.pressure < 0
              /\ e.sensors.pressure < PRESSURE_NOMINAL_MIN * Scale
           \/ /\ e.sensors.temperature - prev.temperature > 0
              /\ e.sensors.temperature > TEMPERATURE_NOMINAL_MAX * Scale

\* Mutant of CalculateStability: the critical penalty replaces the warning
\* penalty instead of adding to it.
CalculateStabilityExclusivePenalty(e) ==
    LET score == 100
                 - (IF AnyStatus(e, "critical") THEN PENALTY_CRITICAL
                    ELSE IF AnyStatus(e, "warning") THEN PENALTY_WARNING ELSE 0)
                 - (IF Trend(e) THEN PENALTY_TREND ELSE 0)
    IN  [e EXCEPT !.stability = Max(0, Min(100, score))]

CalculateStability(e) ==
    LET score == 100
                 - (IF AnyStatus(e, "warning") THEN PENALTY_WARNING ELSE 0)
                 - (IF AnyStatus(e, "critical") THEN PENALTY_CRITICAL ELSE 0)
                 - (IF Trend(e) THEN PENALTY_TREND ELSE 0)
    IN  [e EXCEPT !.stability = Max(0, Min(100, score))]

\* Mutant of UpdateState: the PAUSED early return is missing.
UpdateStateNoPausedGuard(e) ==
    IF e.stability >= THRESHOLD_NORMAL
    THEN [e EXCEPT !.state = "NORMAL", !.stableTickCount = @ + 1]
    ELSE IF e.stability >= THRESHOLD_DEGRADED
    THEN [e EXCEPT !.state = "DEGRADED", !.stableTickCount = 0]
    ELSE [e EXCEPT !.state = "CRITICAL", !.stableTickCount = 0]

\* Mutant of UpdateState: the NORMAL band starts one point too low.
UpdateStateLowNormalBand(e) ==
    IF e.state = "PAUSED" THEN e
    ELSE IF e.stability >= THRESHOLD_NORMAL - 1
    THEN [e EXCEPT !.state = "NORMAL", !.stableTickCount = @ + 1]
    ELSE IF e.stability >= THRESHOLD_DEGRADED
    THEN [e EXCEPT !.state = "DEGRADED", !.stableTickCount = 0]
    ELSE [e EXCEPT !.state = "CRITICAL", !.stableTickCount = 0]

UpdateState(e) ==
    IF e.state = "PAUSED" THEN e
    ELSE IF e.stability >= THRESHOLD_NORMAL
    THEN [e EXCEPT !.state = "NORMAL", !.stableTickCount = @ + 1]
    ELSE IF e.stability >= THRESHOLD_DEGRADED
    THEN [e EXCEPT !.state = "DEGRADED", !.stableTickCount = 0]
    ELSE [e EXCEPT !.state = "CRITICAL", !.stableTickCount = 0]

\* Mutant of PauseLine: the running scenario is not halted.
PauseLineKeepsScenario(e) == [e EXCEPT !.state = "PAUSED"]

PauseLine(e) ==
    [e EXCEPT !.state = "PAUSED", !.activeScenario.active = FALSE]

\* checkAutoStop() when CONFIG.AUTO_STOP.ENABLED has the value enabled.
CheckAutoStopWhen(enabled, e) ==
    IF ~enabled THEN e
    ELSE IF e.state = "CRITICAL"
    THEN LET e1 == [e EXCEPT !.criticalTickCount = @ + 1]
         IN  IF e1.criticalTickCount >= AUTO_STOP_CRITICAL_TICKS
             THEN PauseLine(e1) ELSE e1
    ELSE [e EXCEPT !.criticalTickCount = 0]

CheckAutoStop(e) == CheckAutoStopWhen(AUTO_STOP_ENABLED, e)

HistoryEntry(e, t) ==
    [time |-> t, power |-> e.sensors.power, pressure |-> e.sensors.pressure,
     temperature |-> e.sensors.temperature, stability |-> e.stability,
     state |-> e.state]

\* Mutant of PushHistory: nothing is evicted.
PushHistoryUnbounded(e, t) ==
    [e EXCEPT !.sensorHistory = Append(e.sensorHistory, HistoryEntry(e, t))]

PushHistory(e, t) ==
    LET h == Append(e.sensorHistory, HistoryEntry(e, t))
    IN  [e EXCEPT !.sensorHistory = IF Len(h) > MAX_DATA_POINTS THEN Tail(h) ELSE h]

\* The snapshot built by emitTelemetry and by getTelemetrySnapshot.
Snapshot(e, t) ==
    [timestamp |-> t, state |-> e.state, stability |-> e.stability,
     sensors |-> e.sensors, cooling |-> e.cooling, backupPower |-> e.backupPower,
     mainBatteryLevel |-> e.mainBatteryLevel,
     backupBatteryLevel |-> e.backupBatteryLevel,
     scenario |-> [active |-> e.activeScenario.active, type |-> e.activeScenario.type],
     deltas |-> [powerDelta |-> e.sensors.power - e.previousSensors.power,
                 pressureDelta |-> e.sensors.pressure - e.previousSensors.pressure,
                 tempDelta |-> e.sensors.temperature - e.previousSensors.temperature]]

\* Mutant of TickBody: a paused line skips the tick.
TickBodySkipsPaused(e, t, kind, rDrop, rDrain, rP, rT, rPr) ==
    IF e.state = "PAUSED" THEN e
    ELSE PushHistory(CheckAutoStop(UpdateState(CalculateStability(
             UpdateSensors(ManageScenarios([e EXCEPT !.tickCount = @ + 1,
                                                     !.previousSensors = e.sensors],
                                           t, t, kind),
                           rDrop, rDrain, rP, rT, rPr)))), t)

\* Mutant of TickBody: the score is computed before the sensors are updated.
TickBodyScoresFirst(e, t, kind, rDrop, rDrain, rP, rT, rPr) ==
    LET e1 == [e EXCEPT !.tickCount = @ + 1, !.previousSensors = e.sensors]
        e2 == ManageScenarios(e1, t, t, kind)
        e3 == CalculateStability(e2)
        e4 == UpdateSensors(e3, rDrop, rDrain, rP, rT, rPr)
        e5 == UpdateState(e4)
        e6 == CheckAutoStop(e5)
    IN  PushHistory(e6, t)

\* The whole of tick() on the engine fields, at time t (startTime is 0, so
\* elapsed = t).
TickBody(e, t, kind, rDrop, rDrain, rP, rT, rPr) ==
    LET e1 == [e EXCEPT !.tickCount = @ + 1, !.previousSensors = e.sensors]
        e2 == ManageScenarios(e1, t, t, kind)
        e3 == UpdateSensors(e2, rDrop, rDrain, rP, rT, rPr)
        e4 == CalculateStability(e3)
        e5 == UpdateState(e4)
        e6 == CheckAutoStop(e5)
    IN  PushHistory(e6, t)

\* tick() on the engine fields when the configuration enables auto-stop.
TickBodyAutoStop(e, t, kind, rDrop, rDrain, rP, rT, rPr) ==
    LET e1 == [e EXCEPT !.tickCount = @ + 1, !.previousSensors = e.sensors]
        e2 == ManageScenarios(e1, t, t, kind)
        e3 == UpdateSensors(e2, rDrop, rDrain, rP, rT, rPr)
        e4 == CalculateStability(e3)
        e5 == UpdateState(e4)
        e6 == CheckAutoStopWhen(TRUE, e5)
    IN  PushHistory(e6, t)

\* ------------------------------------------------------------------ timers
\* A pending callback of the browser's timer queue.  kind is "tick" (the
\* setInterval of start), "backup" (the setTimeout of switchBackupPower),
\* "restart" (the setTimeout of endScenarioAndScheduleNext) or "ramp" (the
\* setInterval of gradualRestore, with its closure variables).
Timer(kind, due, id, sensorType, step, stepChange, interval) ==
    [kind |-> kind, due |-> due, id |-> id, sensorType |-> sensorType,
     step |-> step, stepChange |-> stepChange, interval |-> interval]

TickTimer(due, id) == Timer("tick", due, id, "none", 0, 0, TICK_INTERVAL)
BackupTimer(due) == Timer("backup", due, 0, "none", 0, 0, 0)
RestartTimer(due) == Timer("restart", due, 0, "none", 0, 0, 0)
\* The setInterval of AIIntegration.startTelemetry.
TelemetryTimer(due) == Timer("telemetry", due, 0, "none", 0, 0, TELEMETRY_INTERVAL)

AddTimer(tm, t) == tm (+) SetToBag({t})
RemoveTimer(tm, t) == tm (-) SetToBag({t})

Pending(kind) == {t \in BagToSet(timers) : t.kind = kind}
Due(kind) == {t \in Pending(kind) : t.due = now}

\* Division of a fixed-point value by a count, rounding toward zero (the
\* double division (targetValue - startValue) / steps, to the model's
\* resolution of one hundredth).
DivTrunc(x, d) == IF x >= 0 THEN x \div d ELSE -((-x) \div d)

\* ------------------------------------------------- scenario end and actions
\* Mutant of EndScenarioAndScheduleNext: the backup-power flag is left as it
\* was.
EndScenarioKeepsBackupPower(e, t) ==
    [e EXCEPT !.activeScenario = NoScenario,
              !.cooling = COOLING_DEFAULT,
              !.state = "NORMAL",
              !.stability = 100,
              !.stableTickCount = 0,
              !.criticalTickCount = 0,
              !.lastScenarioEndTime = t,
              !.mainBatteryLevel = BATTERY_FULL * Scale,
              !.backupBatteryLevel = BATTERY_FULL * Scale,
              !.scenarioScheduled = TRUE]

\* The engine fields after endScenarioAndScheduleNext() called at time t.
\* Mutant of EndScenarioAndScheduleNext: the routine does nothing when no
\* scenario is active.
EndScenarioIfActive(e, t) ==
    IF ~e.activeScenario.active THEN e
    ELSE [e EXCEPT !.activeScenario = NoScenario,
                   !.backupPower = FALSE,
                   !.cooling = COOLING_DEFAULT,
                   !.state = "NORMAL",
                   !.stability = 100,
                   !.stableTickCount = 0,
                   !.criticalTickCount = 0,
                   !.lastScenarioEndTime = t,
                   !.mainBatteryLevel = BATTERY_FULL * Scale,
                   !.backupBatteryLevel = BATTERY_FULL * Scale,
                   !.scenarioScheduled = TRUE]

EndScenarioAndScheduleNext(e, t) ==
    [e EXCEPT !.activeScenario = NoScenario,
              !.backupPower = FALSE,
              !.cooling = COOLING_DEFAULT,
              !.state = "NORMAL",
              !.stability = 100,
              !.stableTickCount = 0,
              !.criticalTickCount = 0,
              !.lastScenarioEndTime = t,
              !.mainBatteryLevel = BATTERY_FULL * Scale,
              !.backupBatteryLevel = BATTERY_FULL * Scale,
              !.scenarioScheduled = TRUE]

\* The timer queue after endScenarioAndScheduleNext() called at time t.
ScheduleNext(tm, t) == AddTimer(tm, RestartTimer(t + SCENARIO_DELAY))

\* Mutant of SwitchBackupPower: the call itself restores the power reading.
SwitchBackupPowerAtOnce(e) ==
    [e EXCEPT !.backupPower = TRUE, !.mainBatteryLevel = BATTERY_FULL * Scale,
              !.sensors.power = POWER_NOMINAL * Scale]

SwitchBackupPower(e) ==
    [e EXCEPT !.backupPower = TRUE, !.mainBatteryLevel = BATTERY_FULL * Scale]

TargetValue(sensorType) ==
    IF sensorType = "pressure" THEN PRESSURE_NOMINAL * Scale
    ELSE IF sensorType = "temperature" THEN TEMPERATURE_NOMINAL * Scale
    ELSE POWER_NOMINAL * Scale

\* The interval armed by gradualRestore(sensorType, duration) at time t.
GradualRestore(e, sensorType, duration, t) ==
    LET interval == duration \div RAMP_STEPS
        stepChange == DivTrunc(TargetValue(sensorType) - e.sensors[sensorType],
                               RAMP_STEPS)
    IN  Timer("ramp", t + interval, 0, sensorType, 0, stepChange, interval)

\* Mutant of ResumeAllowed: the critical-sensor check is missing.
ResumeAllowedIgnoresCritical(e) == e.state = "PAUSED"

ResumeAllowed(e) == e.state = "PAUSED" /\ ~AnyStatus(e, "critical")

\* Mutant of ResumeLine: the scenario-delay anchor is not reset.
ResumeLineKeepsAnchor(e, t) ==
    IF ~ResumeAllowed(e) THEN e
    ELSE [e EXCEPT !.state = StateOfScore(e.stability),
                   !.stableTickCount = 0,
                   !.criticalTickCount = 0]

ResumeLine(e, t) ==
    IF ~ResumeAllowed(e) THEN e
    ELSE [e EXCEPT !.state = StateOfScore(e.stability),
                   !.stableTickCount = 0,
                   !.criticalTickCount = 0,
                   !.lastScenarioEndTime = t]

\* Mutant of ResumeResult: the critical-sensor check comes first.
ResumeResultCriticalFirst(e) ==
    IF AnyStatus(e, "critical")
    THEN [success |-> FALSE, message |-> "Cannot resume: Sensors still critical"]
    ELSE IF e.state # "PAUSED"
    THEN [success |-> FALSE, message |-> "Line is not paused"]
    ELSE [success |-> TRUE,
          message |-> "Production line resumed (" \o StateOfScore(e.stability) \o ")"]

ResumeResult(e) ==
    IF e.state # "PAUSED"
    THEN [success |-> FALSE, message |-> "Line is not paused"]
    ELSE IF AnyStatus(e, "critical")
    THEN [success |-> FALSE, message |-> "Cannot resume: Sensors still critical"]
    ELSE [success |-> TRUE,
          message |-> "Production line resumed (" \o StateOfScore(e.stability) \o ")"]

\* Mutant of ActionFields: a name the switch does not list pauses the line.
ActionFieldsUnknownPauses(e, a, t) ==
    CASE a = "switch_backup_power" -> SwitchBackupPower(e)
      [] a = "pause_line" -> PauseLine(e)
      [] a = "resume_line" -> ResumeLine(e, t)
      [] a \in {"increase_pressure", "decrease_pressure", "increase_cooling"} -> e
      [] OTHER -> PauseLine(e)

\* Mutant of ActionFields: increase_cooling raises the cooling level by 20.
ActionFieldsCoolingRises(e, a, t) ==
    CASE a = "switch_backup_power" -> SwitchBackupPower(e)
      [] a = "pause_line" -> PauseLine(e)
      [] a = "resume_line" -> ResumeLine(e, t)
      [] a = "increase_cooling" -> [e EXCEPT !.cooling = @ + 20]
      [] OTHER -> e

\* executeAction(a) at time t: the engine fields, the timer queue and the
\* returned value.
ActionFields(e, a, t) ==
    CASE a = "switch_backup_power" -> SwitchBackupPower(e)
      [] a = "pause_line" -> PauseLine(e)
      [] a = "resume_line" -> ResumeLine(e, t)
      [] OTHER -> e

\* Mutant of ActionTimers: pause_line cancels the pending ramps and backup
\* callbacks.
ActionTimersPauseCancels(tm, e, a, t) ==
    CASE a = "switch_backup_power" -> AddTimer(tm, BackupTimer(t + BACKUP_DELAY))
      [] a \in {"increase_pressure", "decrease_pressure"} ->
            AddTimer(tm, GradualRestore(e, "pressure", PRESSURE_RAMP_DURATION, t))
      [] a = "increase_cooling" ->
            AddTimer(tm, GradualRestore(e, "temperature", COOLING_RAMP_DURATION, t))
      [] a = "pause_line" ->
            [x \in {y \in DOMAIN tm : y.kind \notin {"ramp", "backup"}} |-> tm[x]]
      [] OTHER -> tm

\* Mutant of ActionTimers: a new ramp replaces the ramps already in flight on
\* its channel.
ActionTimersSingleRamp(tm, e, a, t) ==
    LET others(ch) == [x \in {y \in DOMAIN tm :
                                 ~(y.kind = "ramp" /\ y.sensorType = ch)} |-> tm[x]]
    IN  CASE a = "switch_backup_power" -> AddTimer(tm, BackupTimer(t + BACKUP_DELAY))
          [] a \in {"increase_pressure", "decrease_pressure"} ->
                AddTimer(others("pressure"),
                         GradualRestore(e, "pressure", PRESSURE_RAMP_DURATION, t))
          [] a = "increase_cooling" ->
                AddTimer(others("temperature"),
                         GradualRestore(e, "temperature", COOLING_RAMP_DURATION, t))
          [] OTHER -> tm

\* Mutant of ActionTimers: decrease_pressure arms no ramp.
ActionTimersIdleDecrease(tm, e, a, t) ==
    CASE a = "switch_backup_power" -> AddTimer(tm, BackupTimer(t + BACKUP_DELAY))
      [] a = "increase_pressure" ->
            AddTimer(tm, GradualRestore(e, "pressure", PRESSURE_RAMP_DURATION, t))
      [] a = "increase_cooling" ->
            AddTimer(tm, GradualRestore(e, "temperature", COOLING_RAMP_DURATION, t))
      [] OTHER -> tm

ActionTimers(tm, e, a, t) ==
    CASE a = "switch_backup_power" -> AddTimer(tm, BackupTimer(t + BACKUP_DELAY))
      [] a \in {"increase_pressure", "decrease_pressure"} ->
            AddTimer(tm, GradualRestore(e, "pressure", PRESSURE_RAMP_DURATION, t))
      [] a = "increase_cooling" ->
            AddTimer(tm, GradualRestore(e, "temperature", COOLING_RAMP_DURATION, t))
      [] OTHER -> tm

ActionResult(e, a) ==
    CASE a = "switch_backup_power" ->
            [success |-> TRUE, message |-> "Backup power activated"]
      [] a = "increase_pressure" ->
            [success |-> TRUE, message |-> "Increasing pressure..."]
      [] a = "decrease_pressure" ->
            [success |-> TRUE, message |-> "Decreasing pressure..."]
      [] a = "increase_cooling" ->
            [success |-> TRUE, message |-> "Cooling system engaged..."]
      [] a = "pause_line" ->
            [success |-> TRUE, message |-> "Production line paused"]
      [] a = "resume_line" -> ResumeResult(e)
      [] OTHER -> [success |-> FALSE, message |-> "Unknown action"]

\* Mutant of RampStepFields: the last step adds its increment but does not
\* force the target value.
RampStepFieldsNoSnap(e, r, t) ==
    LET e1 == [e EXCEPT !.sensors[r.sensorType] = @ + r.stepChange]
    IN  IF r.step + 1 >= RAMP_STEPS
        THEN EndScenarioAndScheduleNext(e1, t)
        ELSE e1

\* One callback of a ramp r at time t: the engine fields.
RampStepFields(e, r, t) ==
    LET e1 == [e EXCEPT !.sensors[r.sensorType] = @ + r.stepChange]
    IN  IF r.step + 1 >= RAMP_STEPS
        THEN EndScenarioAndScheduleNext(
                 [e1 EXCEPT !.sensors[r.sensorType] = TargetValue(r.sensorType)], t)
        ELSE e1

\* Mutant of RampStepTimers: the 10th step runs the scenario-end routine but
\* does not cancel the interval.
RampStepTimersKeepsInterval(tm, r, t) ==
    IF r.step + 1 >= RAMP_STEPS
    THEN ScheduleNext(AddTimer(RemoveTimer(tm, r),
                               [r EXCEPT !.step = @ + 1, !.due = @ + r.interval]), t)
    ELSE AddTimer(RemoveTimer(tm, r),
                  [r EXCEPT !.step = @ + 1, !.due = @ + r.interval])

\* One callback of a ramp r at time t: the timer queue.
RampStepTimers(tm, r, t) ==
    IF r.step + 1 >= RAMP_STEPS
    THEN ScheduleNext(RemoveTimer(tm, r), t)
    ELSE AddTimer(RemoveTimer(tm, r),
                  [r EXCEPT !.step = @ + 1, !.due = @ + r.interval])

\* Mutant of BackupFields: the callback ends the scenario but does not write
\* the power reading.
BackupFieldsKeepsPower(e, t) == EndScenarioAndScheduleNext(e, t)

\* The callback of switchBackupPower's timeout at time t.
BackupFields(e, t) ==
    EndScenarioAndScheduleNext([e EXCEPT !.sensors.power = POWER_NOMINAL * Scale], t)

\* Mutant of RestartFields: the callback leaves a paused line alone.
RestartFieldsUnlessPaused(e, kind) ==
    IF e.state = "PAUSED" THEN [e EXCEPT !.scenarioScheduled = FALSE]
    ELSE StartRandomScenario([e EXCEPT !.scenarioScheduled = FALSE], kind)

\* Mutant of RestartFields: the callback starts the scenario and leaves the
\* scheduled flag set.
RestartFieldsKeepsFlag(e, kind) == StartRandomScenario(e, kind)

\* The callback of endScenarioAndScheduleNext's timeout.
RestartFields(e, kind) ==
    StartRandomScenario([e EXCEPT !.scenarioScheduled = FALSE], kind)

\* ----------------------------------------------------------------- actions
\* Values of Math.random() (hundredths) the specifications draw from.
MidDraws == {50}
MinDraws == {0}
MaxDraws == {99}
EdgeDraws == {0, 99}

NoSnapshot == [timestamp |-> -1]
NoResult == [success |-> FALSE, message |-> "none"]

\* The observer of a step: what ran, whether startRandomScenario ran in it,
\* and the scenario flag and operating state it found.
Step(op, arg, started) ==
    [op |-> op, arg |-> arg, started |-> started,
     prevActive |-> sim.activeScenario.active, prevState |-> sim.state]

\* obs.stopTime is the last time an active scenario stopped being active,
\* obs.resumeTime the last time an executeAction call took the line out of
\* PAUSED.
Observe(e2, isAction, isStart) ==
    [actions |-> obs.actions + (IF isAction THEN 1 ELSE 0),
     starts |-> obs.starts + (IF isStart THEN 1 ELSE 0),
     stopTime |-> IF sim.activeScenario.active /\ ~e2.activeScenario.active
                  THEN now ELSE obs.stopTime,
     resumeTime |-> IF isAction /\ sim.state = "PAUSED" /\ e2.state # "PAUSED"
                    THEN now ELSE obs.resumeTime]

Init ==
    /\ now = 0
    /\ sim = Constructor
    /\ timers = EmptyBag
    /\ telemetry = NoSnapshot
    /\ result = NoResult
    /\ last = [op |-> "new", arg |-> "none", started |-> FALSE,
               prevActive |-> FALSE, prevState |-> "NORMAL"]
    /\ obs = [actions |-> 0, starts |-> 0, stopTime |-> -1, resumeTime |-> -1]
    /\ adapter = AIConstructor

\* start(): arm the tick interval and keep its handle.
Start ==
    /\ obs.starts < MaxStarts
    /\ LET id == obs.starts + 1
       IN  /\ sim' = [sim EXCEPT !.tickInterval = id]
           /\ timers' = AddTimer(timers, TickTimer(now + TICK_INTERVAL, id))
    /\ last' = Step("start", "none", FALSE)
    /\ obs' = Observe(sim', FALSE, TRUE)
    /\ telemetry' = NoSnapshot
    /\ result' = NoResult
    /\ UNCHANGED <<now, adapter>>

\* stop(): clear the interval whose handle is stored, if any.
Stop ==
    /\ sim.tickInterval # 0
    /\ sim' = [sim EXCEPT !.tickInterval = 0]
    /\ timers' = [t \in {x \in DOMAIN timers :
                           ~(x.kind = "tick" /\ x.id = sim.tickInterval)}
                  |-> timers[t]]
    /\ last' = Step("stop", "none", FALSE)
    /\ obs' = Observe(sim', FALSE, FALSE)
    /\ telemetry' = NoSnapshot
    /\ result' = NoResult
    /\ UNCHANGED <<now, adapter>>

\* One firing of a tick interval: tick(), with its random draws taken from K
\* (scenario choice), D (scenario perturbation) and N (ambient noise).
Tick(K, D, N) ==
    \E t \in Due("tick") : \E kind \in K : \E rDrop, rDrain \in D :
    \E rP, rT, rPr \in N :
        /\ sim' = TickBody(sim, now, kind, rDrop, rDrain, rP, rT, rPr)
        /\ timers' = AddTimer(RemoveTimer(timers, t),
                              [t EXCEPT !.due = @ + TICK_INTERVAL])
        /\ telemetry' = Snapshot(sim', now)
        /\ last' = Step("tick", "none",
                        /\ ~sim.activeScenario.active
                        /\ ManageScenarios(sim, now, now, kind).activeScenario.active)
        /\ obs' = Observe(sim', FALSE, FALSE)
        /\ result' = NoResult
        /\ UNCHANGED <<now, adapter>>

\* One firing of a tick interval when the configuration enables auto-stop.
TickAutoStop(K, D, N) ==
    \E t \in Due("tick") : \E kind \in K : \E rDrop, rDrain \in D :
    \E rP, rT, rPr \in N :
        /\ sim' = TickBodyAutoStop(sim, now, kind, rDrop, rDrain, rP, rT, rPr)
        /\ timers' = AddTimer(RemoveTimer(timers, t),
                              [t EXCEPT !.due = @ + TICK_INTERVAL])
        /\ telemetry' = Snapshot(sim', now)
        /\ last' = Step("tick", "none",
                        /\ ~sim.activeScenario.active
                        /\ ManageScenarios(sim, now, now, kind).activeScenario.active)
        /\ obs' = Observe(sim', FALSE, FALSE)
        /\ result' = NoResult
        /\ UNCHANGED <<now, adapter>>

\* The delayed callback of switch_backup_power.
BackupTimeout ==
    \E t \in Due("backup") :
        /\ sim' = BackupFields(sim, now)
        /\ timers' = ScheduleNext(RemoveTimer(timers, t), now)
        /\ last' = Step("backupTimeout", "none", FALSE)
        /\ obs' = Observe(sim', FALSE, FALSE)
        /\ telemetry' = NoSnapshot
    /\ result' = NoResult
    /\ UNCHANGED <<now, adapter>>

\* One callback of a gradual-restore interval.
RampStep ==
    \E r \in Due("ramp") :
        /\ sim' = RampStepFields(sim, r, now)
        /\ timers' = RampStepTimers(timers, r, now)
        /\ last' = Step("rampStep", r.sensorType, FALSE)
        /\ obs' = Observe(sim', FALSE, FALSE)
        /\ telemetry' = NoSnapshot
    /\ result' = NoResult
    /\ UNCHANGED <<now, adapter>>

\* The delayed restart armed by the scenario-end routine.
RestartTimeout(K) ==
    \E t \in Due("restart") : \E kind \in K :
        /\ sim' = RestartFields(sim, kind)
        /\ timers' = RemoveTimer(timers, t)
        /\ last' = Step("restartTimeout", "none", TRUE)
        /\ obs' = Observe(sim', FALSE, FALSE)
        /\ telemetry' = NoSnapshot
    /\ result' = NoResult
    /\ UNCHANGED <<now, adapter>>

\* executeAction(a), called by the operator or the AI adapter at any time.
Execute(a, limit) ==
    /\ obs.actions < limit
    /\ sim' = ActionFields(sim, a, now)
    /\ timers' = ActionTimers(timers, sim, a, now)
    /\ result' = ActionResult(sim, a)
    /\ last' = Step("action", a, FALSE)
    /\ obs' = Observe(sim', TRUE, FALSE)
    /\ telemetry' = NoSnapshot
    /\ UNCHANGED <<now, adapter>>

\* Time passes until the next pending callback is due (up to the horizon).
Advance(horizon) ==
    /\ BagToSet(timers) # {}
    /\ \A t \in BagToSet(timers) : t.due > now
    /\ \E t \in BagToSet(timers) :
        /\ \A u \in BagToSet(timers) : t.due <= u.due
        /\ t.due <= horizon
        /\ now' = t.due
    /\ last' = Step("advance", "none", FALSE)
    /\ telemetry' = NoSnapshot
    /\ result' = NoResult
    /\ UNCHANGED <<sim, timers, obs, adapter>>

\* FactoryApp.init() calls start() once, after the engine is constructed.
AppStart == obs.starts = 0 /\ Start

\* AIIntegration.init() when the avatar SDK is loaded: the adapter holds an
\* SDK instance and is registered for its data.  (Without the SDK init()
\* returns with every field as constructed.)
AIInit ==
    /\ obs.starts = 0
    /\ ~adapter.spacesInstance
    /\ adapter' = [adapter EXCEPT !.spacesInstance = TRUE]
    /\ last' = Step("aiInit", "none", FALSE)
    /\ telemetry' = NoSnapshot
    /\ result' = NoResult
    /\ UNCHANGED <<now, sim, timers, obs>>

\* The end of FactoryApp.init(): simulation.start() and then
\* aiIntegration.startTelemetry().
AppStartWithTelemetry ==
    /\ obs.starts = 0
    /\ LET id == obs.starts + 1
       IN  /\ sim' = [sim EXCEPT !.tickInterval = id]
           /\ timers' = AddTimer(AddTimer(timers, TickTimer(now + TICK_INTERVAL, id)),
                                 TelemetryTimer(now + TELEMETRY_INTERVAL))
    /\ last' = Step("start", "none", FALSE)
    /\ obs' = Observe(sim', FALSE, TRUE)
    /\ telemetry' = NoSnapshot
    /\ result' = NoResult
    /\ UNCHANGED <<now, adapter>>

\* One firing of the telemetry interval: sendTelemetry().
SendTelemetry ==
    \E t \in Due("telemetry") :
        /\ timers' = AddTimer(RemoveTimer(timers, t),
                              [t EXCEPT !.due = @ + TELEMETRY_INTERVAL])
        /\ IF ~adapter.spacesInstance
           THEN /\ telemetry' = NoSnapshot
                /\ UNCHANGED adapter
           ELSE /\ telemetry' = Snapshot(sim, now)
                /\ adapter' = SendTelemetryFields(adapter, telemetry')
        /\ last' = Step("sendTelemetry", "none", FALSE)
        /\ result' = NoResult
        /\ UNCHANGED <<now, sim, obs>>

\* What a function-call step records about the message it received.
CallLabel(format, name, action) == format \o ":" \o name \o ":" \o action

\* A function call delivered by the avatar SDK to handleOnData, in either
\* format, with the name and the action its payload carries ("undefined"
\* when the field is missing).
FunctionCall(format, name, action, limit) ==
    /\ adapter.spacesInstance
    /\ obs.actions < limit
    /\ IF CallAccepted(ResolvedName(format, name), action)
       THEN /\ sim' = ActionFields(sim, action, now)
            /\ timers' = ActionTimers(timers, sim, action, now)
            /\ result' = ActionResult(sim, action)
            /\ obs' = Observe(sim', TRUE, FALSE)
            /\ telemetry' = Snapshot(sim', now)
       ELSE /\ result' = NoResult
            /\ telemetry' = NoSnapshot
            /\ UNCHANGED <<sim, timers, obs>>
    /\ last' = Step("functionCall", CallLabel(format, name, action), FALSE)
    /\ UNCHANGED <<now, adapter>>

Next ==
    \/ AppStart
    \/ Tick(FaultKinds, MidDraws, MidDraws)
    \/ BackupTimeout
    \/ RampStep
    \/ RestartTimeout(FaultKinds)
    \/ \E a \in ActionNames \cup {"unknown"} : Execute(a, MaxActions)
    \/ Advance(MaxTicks * TICK_INTERVAL)

Spec == Init /\ [][Next]_vars

\* The operator answers a critical pressure reading, and nothing else, with
\* increase_pressure.
OperatorRestoresPressure(limit) ==
    /\ GetSensorStatus(sim, "pressure") = "critical"
    /\ Execute("increase_pressure", limit)

\* A long run in which a fault is left to drive its channel to the clamp:
\* each fault perturbation is the smallest or the largest the code can draw
\* and the noise is the lowest.
NextSensors ==
    \/ AppStart
    \/ Tick(FaultKinds, EdgeDraws, MinDraws)
    \/ RampStep
    \/ RestartTimeout(FaultKinds)
    \/ OperatorRestoresPressure(SensorActions)
    \/ Advance(SensorTicks * TICK_INTERVAL)

SpecSensors == Init /\ [][NextSensors]_vars

\* The same long run under the largest perturbations only, with an operator
\* who repeats increase_pressure while the reading is critical.
NextLong ==
    \/ AppStart
    \/ Tick(FaultKinds, MaxDraws, MinDraws)
    \/ RampStep
    \/ RestartTimeout(FaultKinds)
    \/ OperatorRestoresPressure(LongActions)
    \/ Advance(LongTicks * TICK_INTERVAL)

SpecLong == Init /\ [][NextLong]_vars

\* The operator uses switch_backup_power and pause_line only: the runs in
\* which several delayed restarts are pending at once.
NextRestart ==
    \/ AppStart
    \/ Tick(FaultKinds, MidDraws, MidDraws)
    \/ BackupTimeout
    \/ RestartTimeout(FaultKinds)
    \/ \E a \in {"switch_backup_power", "pause_line"} : Execute(a, RestartActions)
    \/ Advance(RestartTicks * TICK_INTERVAL)

SpecRestart == Init /\ [][NextRestart]_vars

\* The operator pauses and resumes the line while faults started by the tick
\* run at their smallest or largest perturbation.
NextResume ==
    \/ AppStart
    \/ Tick(FaultKinds, EdgeDraws, MidDraws)
    \/ \E a \in {"pause_line", "resume_line"} : Execute(a, ResumeActions)
    \/ Advance(ResumeTicks * TICK_INTERVAL)

SpecResume == Init /\ [][NextResume]_vars

\* The operator does nothing or pauses the line once; every tick draws each
\* channel's ambient noise at its lowest or its highest.
NextPaused ==
    \/ AppStart
    \/ Tick(FaultKinds, MidDraws, EdgeDraws)
    \/ Execute("pause_line", PausedActions)
    \/ Advance(PausedTicks * TICK_INTERVAL)

SpecPaused == Init /\ [][NextPaused]_vars

\* The line is left alone for more ticks than the history holds.
NextHistory ==
    \/ AppStart
    \/ Tick(FaultKinds, MidDraws, MidDraws)
    \/ Advance(HistoryTicks * TICK_INTERVAL)

SpecHistory == Init /\ [][NextHistory]_vars

\* A caller of the engine's interface issues start() and stop() freely.
NextLifecycle ==
    \/ Start
    \/ Stop
    \/ Tick(FaultKinds, MidDraws, MidDraws)
    \/ Advance(LifecycleTicks * TICK_INTERVAL)

SpecLifecycle == Init /\ [][NextLifecycle]_vars

\* The operator answers a temperature reading that is not normal, and
\* nothing else, with increase_cooling.
OperatorCools(limit) ==
    /\ GetSensorStatus(sim, "temperature") # "normal"
    /\ Execute("increase_cooling", limit)

\* Runs in which the operator may repeat increase_cooling while an earlier
\* cooling ramp is still in flight.
NextCooling ==
    \/ AppStart
    \/ Tick(FaultKinds, MidDraws, MidDraws)
    \/ RampStep
    \/ RestartTimeout(FaultKinds)
    \/ OperatorCools(CoolingActions)
    \/ Advance(CoolingTicks * TICK_INTERVAL)

SpecCooling == Init /\ [][NextCooling]_vars

\* The operator uses switch_backup_power, pause_line and resume_line: the
\* runs in which the line is restarted by hand while delayed restarts are
\* pending.
NextSchedule ==
    \/ AppStart
    \/ Tick(FaultKinds, MidDraws, MidDraws)
    \/ BackupTimeout
    \/ RestartTimeout(FaultKinds)
    \/ \E a \in {"switch_backup_power", "pause_line", "resume_line"} :
           Execute(a, ScheduleActions)
    \/ Advance(ScheduleTicks * TICK_INTERVAL)

SpecSchedule == Init /\ [][NextSchedule]_vars

\* The operator remedies or pauses early enough for every restart timer to
\* fall within the simulated time; the tick loop is started at any moment or
\* not at all.  The browser runs every callback that is due and time goes
\* on, hence the fairness condition.
RemedyHorizon == RemedyTicks * TICK_INTERVAL
RemedyDeadline == RemedyHorizon - SCENARIO_DELAY - PRESSURE_RAMP_DURATION

OperatorActsBy(a, limit, deadline) == now <= deadline /\ Execute(a, limit)

\* What the browser does on its own besides the tick: run a timeout or a
\* ramp step that is due, or let time pass until the next callback is.
EventLoop ==
    \/ BackupTimeout
    \/ RampStep
    \/ RestartTimeout(FaultKinds)
    \/ Advance(RemedyHorizon)

NextRemedy ==
    \/ AppStart
    \/ Tick(FaultKinds, MidDraws, MidDraws)
    \/ EventLoop
    \/ \E a \in {"switch_backup_power", "increase_pressure", "pause_line"} :
           OperatorActsBy(a, RemedyActions, RemedyDeadline)

\* Weak fairness of the tick callback, written out: the callback is enabled
\* exactly when a tick interval is due.
TickFairness ==
    \/ []<>(Due("tick") = {})
    \/ []<><<Tick(FaultKinds, MidDraws, MidDraws)>>_vars

SpecRemedy ==
    Init /\ [][NextRemedy]_vars /\ WF_vars(EventLoop) /\ TickFairness

\* No operator: faults started by the tick run under the smallest and the
\* largest draws of both the perturbation and the ambient noise.
NextPerturb ==
    \/ AppStart
    \/ Tick(FaultKinds, EdgeDraws, EdgeDraws)
    \/ Advance(PerturbTicks * TICK_INTERVAL)

SpecPerturb == Init /\ [][NextPerturb]_vars

\* The engine with CONFIG.AUTO_STOP.ENABLED set to true: faults run at the
\* middle perturbation under the highest noise (so that a critical channel
\* keeps its trend), and the operator pauses, resumes or restores pressure.
NextAutoStop ==
    \/ AppStart
    \/ TickAutoStop(FaultKinds, MidDraws, MaxDraws)
    \/ RampStep
    \/ RestartTimeout(FaultKinds)
    \/ \E a \in {"pause_line", "resume_line", "increase_pressure"} :
           Execute(a, AutoStopActions)
    \/ Advance(AutoStopTicks * TICK_INTERVAL)

SpecAutoStop == Init /\ [][NextAutoStop]_vars

\* The engine driven by the AI adapter: telemetry every TELEMETRY_INTERVAL
\* and function calls from the avatar in place of the operator.
CallNames == {FUNCTION_NAME, "other_function", "undefined"}
CallActions == ActionNames \cup {"unknown", "undefined"}

NextAdapter ==
    \/ AIInit
    \/ AppStartWithTelemetry
    \/ Tick(FaultKinds, MidDraws, MidDraws)
    \/ BackupTimeout
    \/ RampStep
    \/ RestartTimeout(FaultKinds)
    \/ SendTelemetry
    \/ \E f \in CallFormats : \E n \in CallNames : \E a \in CallActions :
           FunctionCall(f, n, a, AdapterActions)
    \/ Advance(AdapterTicks * TICK_INTERVAL)

SpecAdapter == Init /\ [][NextAdapter]_vars

\* The adapter watching an engine nobody operates: faults run their course
\* and every telemetry send classifies the readings of the moment.
NextClassify ==
    \/ AIInit
    \/ AppStartWithTelemetry
    \/ Tick(FaultKinds, MidDraws, MidDraws)
    \/ SendTelemetry
    \/ Advance(ClassifyTicks * TICK_INTERVAL)

SpecClassify == Init /\ [][NextClassify]_vars

\* ------------------------------------------------------------------ claims
InRange(e) ==
    /\ e.sensors.power >= 0 /\ e.sensors.power <= 100 * Scale
    /\ e.sensors.pressure >= 100 * Scale /\ e.sensors.pressure <= 200 * Scale
    /\ e.sensors.temperature >= 20 * Scale /\ e.sensors.temperature <= 120 * Scale

\* C1: in every reachable state, also between two ticks while ramps are in
\* flight, power is in [0,100], pressure in [100,200] and temperature in
\* [20,120].
C1_SensorsAlwaysInRange == InRange(sim)

\* Sensor readings handed to updateSensors() that are not taken from a run:
\* every channel far below its range, at its lower limit, nominal, at its
\* upper limit, and far above its range.
SampleSensors ==
    {[power |-> p * Scale, pressure |-> (100 + p) * Scale,
      temperature |-> (20 + p) * Scale] : p \in {-50, 0, 42, 100, 150}}

\* C2: immediately after updateSensors() returns in a tick (no later phase of
\* the tick writes the sensors), the three channels are within their ranges,
\* whatever the scenario and the values before the call: in every tick of a
\* run, and for updateSensors() applied in any reachable engine state to any
\* of the sample readings under the extreme draws.
C2_ClampedAfterUpdateSensors ==
    /\ last.op = "tick" => InRange(sim)
    /\ \A v \in SampleSensors : \A rDrop, rDrain, rNoise \in EdgeDraws :
           InRange(UpdateSensors([sim EXCEPT !.sensors = v],
                                 rDrop, rDrain, rNoise, rNoise, rNoise))

\* C2 witness: a tick of a PRESSURE_DRIFT scenario that found pressure less
\* than the smallest net drop (2 - 1 bar) above the floor and left it at the
\* floor, or a POWER_SAG tick that left power at 0: the clamp acted.
C2_Witness ==
    /\ last.op = "tick"
    /\ sim.activeScenario.active
    /\ \/ /\ sim.activeScenario.type = "PRESSURE_DRIFT"
          /\ sim.sensors.pressure = 100 * Scale
          /\ sim.previousSensors.pressure > 100 * Scale
       \/ /\ sim.activeScenario.type = "POWER_SAG"
          /\ sim.sensors.power = 0
          /\ sim.previousSensors.power > 0

\* C3: once the operating state is PAUSED it stays PAUSED until a resume_line
\* call succeeds: no other step takes the state from PAUSED to another state.
C3_PausedUntilResume ==
    (last.prevState = "PAUSED" /\ sim.state # "PAUSED")
        => (last.op = "action" /\ last.arg = "resume_line" /\ result.success)

\* C4: a tick executed while the operating state is PAUSED leaves it PAUSED,
\* whatever stability score the tick computes.
C4_TickKeepsPaused ==
    (last.op = "tick" /\ last.prevState = "PAUSED") => sim.state = "PAUSED"

\* C4 witness: a tick ran while PAUSED and computed a score that maps to
\* DEGRADED or CRITICAL.
C4_Witness ==
    /\ last.op = "tick"
    /\ last.prevState = "PAUSED"
    /\ sim.stability < 86

\* C5: whenever the operating state is not PAUSED it is the mapping of the
\* stored stability score: NORMAL from 86, DEGRADED from 71 to below 86,
\* CRITICAL below 71.
C5_StateMatchesScore ==
    sim.state # "PAUSED" =>
        /\ sim.state = "NORMAL" <=> sim.stability >= 86
        /\ sim.state = "DEGRADED" <=> (sim.stability >= 71 /\ sim.stability < 86)
        /\ sim.state = "CRITICAL" <=> sim.stability < 71

\* C5 witness: a successful resume_line left the state DEGRADED, the mapping
\* of a stored score between 71 and 85.
C5_Witness ==
    /\ last.op = "action"
    /\ last.arg = "resume_line"
    /\ result.success
    /\ sim.state = "DEGRADED"
    /\ sim.stability >= 71 /\ sim.stability < 86

\* C6: while the operating state is PAUSED no scenario is ever started,
\* neither by the per-tick check nor by a pending delayed restart.
C6_NoStartWhilePaused == ~(last.started /\ last.prevState = "PAUSED")

\* C7: no scenario is started while less than STARTUP_STABLE_DURATION has
\* elapsed since construction, whatever the operator does in that window.
C7_NoStartDuringStartup == last.started => now >= STARTUP_STABLE_DURATION

\* C8: at every scenario start, at least SCENARIO_DELAY has elapsed since the
\* most recent moment an active scenario stopped being active.
C8_SchedulingGap ==
    (last.started /\ obs.stopTime >= 0) => now - obs.stopTime >= SCENARIO_DELAY

\* C9: a scenario is started only in a state where no scenario is active; an
\* active scenario is never overwritten by a newly started one.
C9_StartOnlyWhenIdle == last.started => ~last.prevActive

\* C10: in every reachable state, activeScenario.active = false implies
\* activeScenario.type = NONE.
C10_InactiveImpliesNone ==
    ~sim.activeScenario.active => sim.activeScenario.type = "NONE"

\* The score of the stability rule for sensor readings s and history h,
\* written out with the rule's numbers.
C11_Warning(s) ==
    \/ s.power > 32 * Scale /\ s.power <= 38 * Scale
    \/ s.pressure > 125 * Scale /\ s.pressure <= 135 * Scale
    \/ s.temperature >= 75 * Scale /\ s.temperature < 85 * Scale

C11_Critical(s) ==
    \/ s.power <= 32 * Scale
    \/ s.pressure <= 125 * Scale
    \/ s.temperature >= 85 * Scale

C11_Trend(s, h) ==
    /\ Len(h) >= 2
    /\ \/ s.power < h[Len(h)].power /\ s.power < 38 * Scale
       \/ s.pressure < h[Len(h)].pressure /\ s.pressure < 135 * Scale
       \/ s.temperature > h[Len(h)].temperature /\ s.temperature > 75 * Scale

C11_Expected(s, h) ==
    LET raw == 100 - (IF C11_Warning(s) THEN 10 ELSE 0)
                   - (IF C11_Critical(s) THEN 25 ELSE 0)
                   - (IF C11_Trend(s, h) THEN 5 ELSE 0)
    IN  IF raw < 0 THEN 0 ELSE IF raw > 100 THEN 100 ELSE raw

\* Readings with every channel normal, warning or critical, in every
\* combination.
C11_Readings ==
    {[power |-> p * Scale, pressure |-> q * Scale, temperature |-> t * Scale] :
        p \in {30, 35, 42}, q \in {120, 130, 140}, t \in {70, 80, 90}}

\* C11: calculateStability sets the score to 100 - 10*[some channel WARNING]
\* - 25*[some channel CRITICAL] - 5*[trend], within [0,100]; the penalties do
\* not stack per channel, both apply when one channel is WARNING and another
\* CRITICAL, and the trend term needs two history entries and a channel that
\* moved further out past its nominal bound since the last history entry.
\* The score depends on the sensors and the last history entry only: not on
\* the stored score, the operating state or the older history.  Checked on
\* the score every tick stores, and on calculateStability applied in every
\* reachable engine state to each of the readings, with the stored score and
\* state overwritten and with the history cut down to its last entry twice.
C11_StabilityFormula ==
    /\ [][last'.op = "tick" =>
             sim'.stability = C11_Expected(sim'.sensors, sim.sensorHistory)]_vars
    /\ [](/\ sim.stability >= 0 /\ sim.stability <= 100
          /\ \A v \in C11_Readings :
                CalculateStability([sim EXCEPT !.sensors = v, !.state = "PAUSED",
                                               !.stability = 0]).stability
                    = C11_Expected(v, sim.sensorHistory)
          /\ Len(sim.sensorHistory) >= 2 =>
                LET h == sim.sensorHistory
                    short == <<h[Len(h)], h[Len(h)]>>
                IN  \A v \in C11_Readings :
                        CalculateStability([sim EXCEPT !.sensors = v,
                                                       !.sensorHistory = short]).stability
                            = CalculateStability([sim EXCEPT !.sensors = v]).stability)

\* C11 witness: a tick scored 60 with one channel WARNING, a different one
\* CRITICAL and a worsening trend: all three penalties, each once.
C11_Witness ==
    /\ last.op = "tick"
    /\ sim.stability = 60
    /\ sim.sensors.power > 32 * Scale /\ sim.sensors.power <= 38 * Scale
    /\ sim.sensors.pressure <= 125 * Scale

C16_PauseLineEffect ==
    /\ [](ActionResult(sim, "pause_line").success)
    /\ [][(last'.op = "action" /\ last'.arg = "pause_line") =>
             /\ result'.success
             /\ sim'.state = "PAUSED"
             /\ ~sim'.activeScenario.active
             /\ sim'.sensors = sim.sensors
             /\ sim'.mainBatteryLevel = sim.mainBatteryLevel
             /\ sim'.backupBatteryLevel = sim.backupBatteryLevel
             /\ sim'.stability = sim.stability]_vars

\* C16 witness: pause_line has halted an active scenario of a line that was
\* not paused and whose score was below 100.
C16_Witness ==
    /\ last.op = "action" /\ last.arg = "pause_line"
    /\ result.success
    /\ last.prevActive /\ last.prevState # "PAUSED"
    /\ sim.state = "PAUSED" /\ ~sim.activeScenario.active
    /\ sim.stability < 100

\* C17: resume_line called while the state is PAUSED and some channel is
\* CRITICAL (power <= 32, pressure <= 125 or temperature >= 85) returns
\* success = false with the message 'Cannot resume: Sensors still critical',
\* leaves the state PAUSED and changes no engine field (and arms no timer).
C17_ResumeRefusedWhileCritical ==
    [][(/\ last'.op = "action" /\ last'.arg = "resume_line"
        /\ sim.state = "PAUSED"
        /\ \/ sim.sensors.power <= 32 * Scale
           \/ sim.sensors.pressure <= 125 * Scale
           \/ sim.sensors.temperature >= 85 * Scale)
       => /\ result' = [success |-> FALSE,
                        message |-> "Cannot resume: Sensors still critical"]
          /\ sim'.state = "PAUSED"
          /\ sim' = sim
          /\ timers' = timers]_vars

\* C17 witness: resume_line has been refused on a paused line with a
\* critical channel.
C17_Witness ==
    /\ last.op = "action" /\ last.arg = "resume_line"
    /\ last.prevState = "PAUSED" /\ sim.state = "PAUSED"
    /\ C11_Critical(sim.sensors)
    /\ ~result.success
    /\ result.message = "Cannot resume: Sensors still critical"

\* C18: resume_line called while the state is not PAUSED returns success =
\* false with the message 'Line is not paused' and changes no engine field
\* (and arms no timer), whether or not a channel is CRITICAL.
C18_ResumeRefusedWhenNotPaused ==
    [][(/\ last'.op = "action" /\ last'.arg = "resume_line"
        /\ sim.state # "PAUSED")
       => /\ result' = [success |-> FALSE, message |-> "Line is not paused"]
          /\ sim' = sim
          /\ timers' = timers]_vars

\* C18 witness: resume_line has been refused as not paused on a line that has
\* a critical channel (the case in which both refusals apply).
C18_Witness ==
    /\ last.op = "action" /\ last.arg = "resume_line"
    /\ last.prevState # "PAUSED"
    /\ C11_Critical(sim.sensors)
    /\ ~result.success
    /\ result.message = "Line is not paused"

\* C19: resume_line called while PAUSED with no channel CRITICAL succeeds,
\* sets the operating state to the mapping of the stored score (NORMAL from
\* 86, DEGRADED from 71, else CRITICAL; never PAUSED), resets the stable and
\* critical tick counters to 0 and sets lastScenarioEndTime to the current
\* time, and changes neither the sensors nor the score; after it, no tick
\* starts a scenario earlier than SCENARIO_DELAY (10000 ms) after the resume.
C19_ResumeRestartsLine ==
    /\ [][(/\ last'.op = "action" /\ last'.arg = "resume_line"
           /\ sim.state = "PAUSED"
           /\ sim.sensors.power > 32 * Scale
           /\ sim.sensors.pressure > 125 * Scale
           /\ sim.sensors.temperature < 85 * Scale)
          => /\ result'.success
             /\ sim'.state = (IF sim.stability >= 86 THEN "NORMAL"
                              ELSE IF sim.stability >= 71 THEN "DEGRADED"
                              ELSE "CRITICAL")
             /\ sim'.stableTickCount = 0
             /\ sim'.criticalTickCount = 0
             /\ sim'.lastScenarioEndTime = now
             /\ sim'.sensors = sim.sensors
             /\ sim'.stability = sim.stability]_vars
    /\ []((last.op = "tick" /\ last.started /\ obs.resumeTime >= 0)
             => now - obs.resumeTime >= 10000)

\* C19 witness: a tick has started a scenario after a successful resume, the
\* tick before it having run after the startup period and after the resume
\* but less than 10000 ms after it: only the anchor held that tick back.
C19_Witness ==
    /\ last.op = "tick" /\ last.started
    /\ obs.resumeTime >= 0
    /\ now - 6000 >= 15000
    /\ now - 6000 >= obs.resumeTime
    /\ now - 6000 - obs.resumeTime < 10000
    /\ sim.lastScenarioEndTime = obs.resumeTime

\* Names that are not action names: an arbitrary word, the empty string, the
\* key of an action instead of its value, and a name close to a real one.
C20_OtherNames == {"unknown", "", "PAUSE_LINE", "restart_line"}

\* C20: executeAction with a name outside {switch_backup_power,
\* increase_pressure, decrease_pressure, increase_cooling, pause_line,
\* resume_line} returns success = false with the message 'Unknown action',
\* changes no engine field and arms no timer: for each of the other names in
\* every reachable state, and in every step that calls one.
C20_UnknownActionRejected ==
    /\ [](\A a \in C20_OtherNames :
            /\ ActionResult(sim, a) = [success |-> FALSE, message |-> "Unknown action"]
            /\ ActionFields(sim, a, now) = sim
            /\ ActionTimers(timers, sim, a, now) = timers)
    /\ [][(/\ last'.op = "action"
           /\ last'.arg \notin {"switch_backup_power", "increase_pressure",
                                "decrease_pressure", "increase_cooling",
                                "pause_line", "resume_line"})
          => /\ result' = [success |-> FALSE, message |-> "Unknown action"]
             /\ sim' = sim
             /\ timers' = timers]_vars

\* C20 witness: an unlisted name has been passed to executeAction while a
\* scenario was active and callbacks were pending, and was rejected.
C20_Witness ==
    /\ last.op = "action" /\ last.arg = "unknown"
    /\ result = [success |-> FALSE, message |-> "Unknown action"]
    /\ sim.activeScenario.active
    /\ sim.state # "PAUSED"
    /\ Pending("tick") # {}

\* The step taken is one that runs the scenario-end routine: the callback of
\* switch_backup_power, or the 10th step of a ramp (the step that consumes a
\* ramp interval which has already run 9 times).
EndRoutineRuns ==
    \/ last'.op = "backupTimeout"
    \/ /\ last'.op = "rampStep"
       /\ \E r \in BagToSet(timers) :
              /\ r.kind = "ramp" /\ r.due = now /\ r.step = 9
              /\ r.sensorType = last'.arg
              /\ CopiesIn(r, timers') < CopiesIn(r, timers)

\* C21: every execution of the scenario-end routine leaves the scenario
\* inactive with kind NONE, the backup-power flag false, cooling at 30,
\* stability 100, the operating state NORMAL and scenarioScheduled true, and
\* arms exactly one new restart timer, due SCENARIO_DELAY (10000 ms) later:
\* the pending restart timers after the step are those before it plus that
\* one.
C21_EndRoutineEffect ==
    [][EndRoutineRuns =>
          /\ ~sim'.activeScenario.active
          /\ sim'.activeScenario.type = "NONE"
          /\ ~sim'.backupPower
          /\ sim'.cooling = 30
          /\ sim'.stability = 100
          /\ sim'.state = "NORMAL"
          /\ sim'.scenarioScheduled
          /\ \E t \in BagToSet(timers') :
                /\ t.kind = "restart" /\ t.due = now + 10000
                /\ \A u \in {x \in BagToSet(timers) \cup BagToSet(timers') :
                                x.kind = "restart"} :
                       CopiesIn(u, timers') =
                           CopiesIn(u, timers) + (IF u = t THEN 1 ELSE 0)]_vars

\* C21 witness: the backup-power callback has run the routine on an active
\* scenario of a DEGRADED line.
C21_Witness ==
    /\ last.op = "backupTimeout"
    /\ last.prevActive /\ last.prevState = "DEGRADED"
    /\ sim.state = "NORMAL" /\ sim.stability = 100
    /\ sim.scenarioScheduled
    /\ \E t \in Pending("restart") : t.due = now + 10000

Abs(x) == IF x < 0 THEN -x ELSE x

\* C22: a tick in the PAUSED state is not skipped: it counts, recomputes the
\* sensors, appends one history entry holding them and emits one telemetry
\* snapshot of them; and if no scenario is active the sensors move by ambient
\* noise only, power and pressure by at most 1 and temperature by at most 0.5
\* (so after pause_line during OVERHEAT the temperature keeps moving but no
\* longer gets the scenario's rise of at least 2).
C22_PausedTicksRun ==
    [][(last'.op = "tick" /\ sim.state = "PAUSED") =>
          /\ sim'.tickCount = sim.tickCount + 1
          /\ sim'.previousSensors = sim.sensors
          /\ Len(sim'.sensorHistory) = Len(sim.sensorHistory) + 1
          /\ LET new == sim'.sensorHistory[Len(sim'.sensorHistory)]
             IN  /\ new.time = now
                 /\ new.power = sim'.sensors.power
                 /\ new.pressure = sim'.sensors.pressure
                 /\ new.temperature = sim'.sensors.temperature
          /\ telemetry'.timestamp = now
          /\ telemetry'.sensors = sim'.sensors
          /\ telemetry'.state = "PAUSED"
          /\ ~sim.activeScenario.active =>
                /\ Abs(sim'.sensors.power - sim.sensors.power) <= 1 * Scale
                /\ Abs(sim'.sensors.pressure - sim.sensors.pressure) <= 1 * Scale
                /\ 2 * Abs(sim'.sensors.temperature - sim.sensors.temperature)
                       <= 1 * Scale]_vars

\* C22 witness: a tick has run on a line paused during OVERHEAT (the scenario
\* is halted, its kind still recorded) and moved the temperature, by noise.
C22_Witness ==
    /\ last.op = "tick" /\ last.prevState = "PAUSED"
    /\ ~sim.activeScenario.active /\ sim.activeScenario.type = "OVERHEAT"
    /\ sim.sensors.temperature # sim.previousSensors.temperature
    /\ sim.sensors.temperature > 70 * Scale
    /\ telemetry.sensors = sim.sensors

\* What a tick may do to the batteries, between the engine e before it and
\* the engine u after it: the battery that is not powering the line gains
\* min(2, 100 - level), the one powering it does not gain, and loses only
\* under an active POWER_SAG.
C23_BatteryStep(e, u) ==
    LET idle == IF e.backupPower THEN "mainBatteryLevel" ELSE "backupBatteryLevel"
        used == IF e.backupPower THEN "backupBatteryLevel" ELSE "mainBatteryLevel"
        room == 100 * Scale - e[idle]
    IN  /\ u.backupPower = e.backupPower
        /\ u[idle] = e[idle] + (IF room < 2 * Scale THEN room ELSE 2 * Scale)
        /\ u[used] <= e[used]
        /\ u[used] < e[used] =>
               u.activeScenario.active /\ u.activeScenario.type = "POWER_SAG"

C23_LevelsInRange(e) ==
    /\ e.mainBatteryLevel >= 0 /\ e.mainBatteryLevel <= 100 * Scale
    /\ e.backupBatteryLevel >= 0 /\ e.backupBatteryLevel <= 100 * Scale

\* Battery levels handed to updateSensors() that are not taken from a run:
\* empty, half, one below full and full, either battery powering the line,
\* with no scenario or a POWER_SAG, in an engine otherwise as constructed.
C23_Samples ==
    {[Constructor EXCEPT !.mainBatteryLevel = m * Scale, !.backupBatteryLevel = b * Scale,
                 !.backupPower = bp,
                 !.activeScenario = IF sag
                                    THEN [type |-> "POWER_SAG", active |-> TRUE,
                                          tickCount |-> 0]
                                    ELSE @] :
        m \in {0, 50, 99, 100}, b \in {0, 50, 99, 100}, bp \in BOOLEAN,
        sag \in BOOLEAN}

\* C23: both battery levels are in [0,100] in every reachable state; in each
\* tick the battery that is not powering the line (backup when backupPower
\* is false, main when it is true) gains min(2, 100 - level), and a level
\* decreases in a tick only for the battery powering the line and only while
\* a POWER_SAG is active.  Checked on every tick of a run, and on
\* updateSensors() applied to the sample levels (the first conjunct, which
\* does not depend on the run).
C23_Batteries ==
    /\ \A e \in C23_Samples : \A r \in EdgeDraws :
           LET u == UpdateSensors(e, r, r, r, r, r)
           IN  C23_LevelsInRange(u) /\ C23_BatteryStep(e, u)
    /\ [](C23_LevelsInRange(sim))
    /\ [][last'.op = "tick" => C23_BatteryStep(sim, sim')]_vars

\* C23 witness: a tick of a POWER_SAG has drained the backup battery while
\* it was powering the line (backup power switched on, its callback not yet
\* run), the main battery staying full.
C23_Witness ==
    /\ last.op = "tick"
    /\ sim.activeScenario.active /\ sim.activeScenario.type = "POWER_SAG"
    /\ sim.backupPower
    /\ sim.backupBatteryLevel < 100 * Scale
    /\ sim.mainBatteryLevel = 100 * Scale

\* C24: the sensor history never holds more than 60 entries; each tick
\* appends exactly one entry, the record of that tick, at the end, and when
\* the history is full it evicts exactly the oldest entry and keeps the
\* others in order; so after n ticks the history is the records of the last
\* min(n, 60) ticks in tick order (one tick every 6000 ms since the start).
C24_HistoryBounded ==
    /\ [](/\ Len(sim.sensorHistory) <= 60
          /\ Len(sim.sensorHistory) =
                 (IF sim.tickCount < 60 THEN sim.tickCount ELSE 60)
          /\ \A i \in 1..Len(sim.sensorHistory) :
                 sim.sensorHistory[i].time =
                     6000 * (sim.tickCount - Len(sim.sensorHistory) + i))
    /\ [][last'.op = "tick" =>
             LET h == sim.sensorHistory
                 h2 == sim'.sensorHistory
                 new == h2[Len(h2)]
             IN  /\ IF Len(h) < 60
                    THEN /\ Len(h2) = Len(h) + 1
                         /\ \A i \in 1..Len(h) : h2[i] = h[i]
                    ELSE /\ Len(h2) = 60
                         /\ \A i \in 1..59 : h2[i] = h[i + 1]
                 /\ new.time = now
                 /\ new.power = sim'.sensors.power
                 /\ new.pressure = sim'.sensors.pressure
                 /\ new.temperature = sim'.sensors.temperature
                 /\ new.stability = sim'.stability
                 /\ new.state = sim'.state]_vars

\* C24 witness: the 62nd tick has run: the history holds 60 entries, the two
\* oldest records are gone and the first entry is the record of tick 3.
C24_Witness ==
    /\ last.op = "tick"
    /\ sim.tickCount = 62
    /\ Len(sim.sensorHistory) = 60
    /\ sim.sensorHistory[1].time = 3 * 6000
    /\ sim.sensorHistory[60].time = now

\* C25: after stop() has returned no tick runs until start() is called again,
\* however many times start() was called before: no tick runs while the
\* stored interval handle is cleared (stop() clears it, start() sets it).
C25_NoTickAfterStop == ~(last.op = "tick" /\ sim.tickInterval = 0)

\* C26: if no operator action is issued, then during the first 15 seconds
\* after construction the operating state is NORMAL, no scenario is active
\* and no scenario has been started, and every channel is still on the
\* normal side of its warning threshold (noise alone moves power and
\* pressure by at most 1 and temperature by at most 0.5 in each of the ticks
\* of that window).
C26_QuietStartup ==
    (obs.actions = 0 /\ now < 15000) =>
        /\ sim.state = "NORMAL"
        /\ sim.stability = 100
        /\ ~sim.activeScenario.active
        /\ sim.activeScenario.type = "NONE"
        /\ ~last.started
        /\ sim.sensors.power > 38 * Scale
        /\ sim.sensors.pressure > 135 * Scale
        /\ sim.sensors.temperature < 75 * Scale

\* C26 witness: the second tick (12 s) has run with no operator action, the
\* noise having been at its lowest on power in both ticks and at its highest
\* on temperature.
C26_Witness ==
    /\ last.op = "tick" /\ now = 12000
    /\ obs.actions = 0
    /\ sim.sensors.power < 41 * Scale
    /\ sim.sensors.temperature > 70 * Scale
    /\ sim.state = "NORMAL"
    /\ sim.stableTickCount = 4

\* C27: an active scenario stops being active only in a step that runs the
\* scenario-end routine (reached from the timers that switch_backup_power,
\* increase_pressure, decrease_pressure and increase_cooling arm, which
\* exist only after an operator action) or in a pause_line call; no tick
\* deactivates a scenario, and as long as no operator action has been issued
\* an active scenario stays active.
C27_ScenarioEndsOnlyByOperator ==
    /\ [][(sim.activeScenario.active /\ ~sim'.activeScenario.active) =>
             \/ EndRoutineRuns
             \/ last'.op = "action" /\ last'.arg = "pause_line"]_vars
    /\ [][(last'.op = "tick" /\ sim.activeScenario.active) =>
             sim'.activeScenario.active]_vars
    /\ [][(obs'.actions = 0 /\ sim.activeScenario.active) =>
             sim'.activeScenario.active]_vars
    /\ [](obs.actions = 0 =>
             \A t \in BagToSet(timers) : t.kind = "tick")

\* C27 witness: with no operator action issued, a scenario started by one
\* tick is still active after a later tick.
C27_Witness ==
    /\ last.op = "tick"
    /\ obs.actions = 0
    /\ last.prevActive
    /\ sim.activeScenario.active
    /\ sim.activeScenario.tickCount >= 1

\* C29: pause_line cancels no timer, and a ramp or a delayed backup-power
\* callback still runs on a paused line: every ramp step taken in PAUSED
\* adds its increment to its channel and stays armed for its next step, or,
\* as the 10th step, runs the scenario-end routine (state NORMAL, a restart
\* timer armed), as does the backup-power callback.
C29_PauseCancelsNoTimer ==
    /\ [][(last'.op = "action" /\ last'.arg = "pause_line") =>
             timers' = timers]_vars
    /\ [][(sim.state = "PAUSED" /\ last'.op \in {"rampStep", "backupTimeout"}) =>
             IF EndRoutineRuns
             THEN /\ sim'.state = "NORMAL"
                  /\ \E t \in BagToSet(timers') :
                         t.kind = "restart" /\ t.due = now + 10000
             ELSE \E r \in BagToSet(timers) :
                    /\ r.kind = "ramp" /\ r.due = now /\ r.step < 9
                    /\ sim'.sensors[r.sensorType] =
                           sim.sensors[r.sensorType] + r.stepChange
                    /\ CopiesIn([r EXCEPT !.step = r.step + 1,
                                          !.due = now + r.interval], timers') > 0
                    /\ sim'.state = "PAUSED"]_vars

\* C29 witness: the 10th step of a pressure ramp has run on a paused line and
\* set the state to NORMAL and pressure to 140; the pause_line call halted
\* an active scenario less than 5000 ms ago, after the ramp was armed.
C29_Witness ==
    /\ last.op = "rampStep" /\ last.arg = "pressure"
    /\ last.prevState = "PAUSED"
    /\ sim.state = "NORMAL"
    /\ sim.sensors.pressure = 140 * Scale
    /\ obs.actions = 2
    /\ obs.stopTime > now - 5000
    /\ Len(sim.sensorHistory) > 0
    /\ sim.sensorHistory[Len(sim.sensorHistory)].pressure < 140 * Scale

\* C30: increase_cooling calls issued while an earlier cooling ramp is in
\* flight create independent ramps whose steps are all applied: a call
\* leaves the pending timers as they are and adds one ramp of 10 steps,
\* 1000 ms apart, whose increment is a tenth of 70 minus the temperature at
\* the call, and every step of a ramp but its 10th adds that ramp's own
\* increment to the channel whatever the other ramps have done.  (The
\* witness is the state the claim says is reachable.)
C30_RampsAreIndependent ==
    /\ [][(last'.op = "action" /\ last'.arg = "increase_cooling") =>
             /\ sim' = sim
             /\ \E r \in BagToSet(timers') :
                    /\ r.kind = "ramp" /\ r.sensorType = "temperature"
                    /\ r.step = 0 /\ r.interval = 1000 /\ r.due = now + 1000
                    /\ r.stepChange =
                           DivTrunc(70 * Scale - sim.sensors.temperature, 10)
                    /\ timers' = timers (+) SetToBag({r})]_vars
    /\ [][(last'.op = "rampStep" /\ ~EndRoutineRuns) =>
             \E r \in BagToSet(timers) :
                /\ r.kind = "ramp" /\ r.due = now /\ r.step < 9
                /\ r.sensorType = last'.arg
                /\ CopiesIn(r, timers') = CopiesIn(r, timers) - 1
                /\ sim'.sensors[r.sensorType] =
                       sim.sensors[r.sensorType] + r.stepChange]_vars

\* C30 witness: two cooling ramps are in flight, neither has reached its
\* 10th step, and their steps have taken the temperature more than 1 degree
\* below the target 70 (ambient noise moves it by at most 0.5 per tick).
C30_Witness ==
    /\ last.op = "rampStep" /\ last.arg = "temperature"
    /\ obs.actions = 2
    /\ sim.sensors.temperature < 69 * Scale
    /\ \E r1, r2 \in Pending("ramp") :
           /\ r1.sensorType = "temperature" /\ r2.sensorType = "temperature"
           /\ r1.stepChange < 0 /\ r2.stepChange < 0
           /\ (r1 # r2 \/ CopiesIn(r1, timers) = 2)

\* ---------------------------------------------------------------------- C28
\* The engine fields and the engine's own timers are the same before and
\* after a step.
C28_EngineUntouched ==
    /\ sim' = sim
    /\ obs'.actions = obs.actions
    /\ \A k \in {"tick", "backup", "restart", "ramp"} : Pending(k)' = Pending(k)

C31_NoAutoStartWhileRestartPending ==
    [][(last'.op = "tick" /\ last'.started) => Pending("restart") = {}]_vars

\* ---------------------------------------------------------------------- C32
C32_RestartTimers(tm) == {t \in BagToSet(tm) : t.kind = "restart"}

C33_Least(sc, ch) ==
    CASE ch = "power" -> IF sc = "POWER_SAG" THEN -700 ELSE -100
      [] ch = "pressure" -> IF sc = "PRESSURE_DRIFT" THEN -600 ELSE -100
      [] OTHER -> IF sc = "OVERHEAT" THEN 150 ELSE -50

C33_Greatest(sc, ch) ==
    CASE ch = "power" -> IF sc = "POWER_SAG" THEN -100 ELSE 100
      [] ch = "pressure" -> IF sc = "PRESSURE_DRIFT" THEN -100 ELSE 100
      [] OTHER -> IF sc = "OVERHEAT" THEN 450 ELSE 50

\* Readings s2 follow readings s by an allowed change of every channel under
\* sc, clamped to the channel's range (clamping is monotone, so the clamped
\* values of the allowed changes are those between the two clamped ends).
C33_Step(sc, s, s2) ==
    /\ \A ch \in {"power", "pressure", "temperature"} :
          LET lo == IF ch = "power" THEN 0 ELSE IF ch = "pressure" THEN 100 ELSE 20
              hi == IF ch = "power" THEN 100 ELSE IF ch = "pressure" THEN 200 ELSE 120
          IN  /\ s2[ch] >= Clamp(lo * Scale, hi * Scale, s[ch] + C33_Least(sc, ch))
              /\ s2[ch] <= Clamp(lo * Scale, hi * Scale, s[ch] + C33_Greatest(sc, ch))
    /\ sc = "POWER_SAG" => (s2.power < s.power \/ s2.power = 0)

C33_Kind(e) == IF e.activeScenario.active THEN e.activeScenario.type ELSE "NONE"

C34_StateOf(score) ==
    IF score >= 86 THEN "NORMAL" ELSE IF score >= 71 THEN "DEGRADED" ELSE "CRITICAL"

\* C34: each tick runs scenario bookkeeping, sensor update, scoring, state
\* update, auto-stop, history append and emit in that order.  The snapshot a
\* tick emits carries the sensors the tick left, deltas against the sensors
\* the tick found, a score computed from exactly those sensors (and the
\* history as it was before this tick's entry) and, unless PAUSED, the state
\* that score maps to; the history entry appended by the tick carries the
\* same sensors, score and state; and a scenario started in a tick already
\* perturbs its channel in that same tick.
C34_TickPhasesInOrder ==
    [][last'.op = "tick" =>
          /\ sim'.tickCount = sim.tickCount + 1
          /\ sim'.previousSensors = sim.sensors
          /\ telemetry'.timestamp = now
          /\ telemetry'.sensors = sim'.sensors
          /\ telemetry'.deltas.powerDelta = sim'.sensors.power - sim.sensors.power
          /\ telemetry'.stability = C11_Expected(telemetry'.sensors, sim.sensorHistory)
          /\ telemetry'.state = sim'.state
          /\ telemetry'.state # "PAUSED" =>
                telemetry'.state = C34_StateOf(telemetry'.stability)
          /\ telemetry'.scenario.active = sim'.activeScenario.active
          /\ LET h == sim'.sensorHistory
                 entry == h[Len(h)]
             IN  /\ Len(h) >= 1
                 /\ entry.time = now
                 /\ entry.power = telemetry'.sensors.power
                 /\ entry.pressure = telemetry'.sensors.pressure
                 /\ entry.temperature = telemetry'.sensors.temperature
                 /\ entry.stability = telemetry'.stability
                 /\ entry.state = telemetry'.state
          /\ last'.started =>
                /\ sim'.activeScenario.active
                /\ sim'.activeScenario.tickCount = 0
                /\ C33_Step(sim'.activeScenario.type, sim.sensors, sim'.sensors)]_vars

\* The tick that started a POWER_SAG has emitted a snapshot whose power is
\* already in the warning band and whose score carries the warning and the
\* trend penalty for it, with the state that score maps to.
C34_Witness ==
    /\ last.op = "tick" /\ last.started
    /\ telemetry.timestamp = now
    /\ telemetry.scenario.active /\ telemetry.scenario.type = "POWER_SAG"
    /\ telemetry.sensors.power < 38 * Scale
    /\ telemetry.stability = 85
    /\ telemetry.state = "DEGRADED"

\* ---------------------------------------------------------------------- C35
\* The number of ticks, counted back from the latest, that ended in CRITICAL,
\* up to n (every tick appends its final state to the history).
RECURSIVE C35_Trailing(_, _)
C35_Trailing(h, n) ==
    IF n = 0 \/ h = << >> \/ h[Len(h)].state # "CRITICAL" THEN 0
    ELSE 1 + C35_Trailing(SubSeq(h, 1, Len(h) - 1), n - 1)

\* A tick forced the line to stop: it found the line running and left it
\* PAUSED.
C35_Forced == last.op = "tick" /\ last.prevState # "PAUSED" /\ sim.state = "PAUSED"

\* C35 (auto-stop enabled): the tick that is the CRITICAL_TICKS-th
\* consecutive tick ending in CRITICAL forces the state to PAUSED and
\* deactivates the scenario, so the history never ends with CRITICAL_TICKS
\* entries in CRITICAL; a forced tick leaves the scenario inactive, and a tick
\* that ends in another state than CRITICAL, without being forced, leaves the
\* consecutive-critical counter at 0.
C35_AutoStopAtTenthCriticalTick ==
    /\ C35_Trailing(sim.sensorHistory, AUTO_STOP_CRITICAL_TICKS)
           < AUTO_STOP_CRITICAL_TICKS
    /\ C35_Forced => ~sim.activeScenario.active
    /\ (last.op = "tick" /\ sim.state # "CRITICAL" /\ ~C35_Forced)
           => sim.criticalTickCount = 0

\* ---------------------------------------------------------------------- C36
C36_RampActions == {"increase_pressure", "decrease_pressure", "increase_cooling"}

\* The sensor and the duration of the ramp an action arms.
C36_Sensor(a) == IF a = "increase_cooling" THEN "temperature" ELSE "pressure"
C36_Duration(a) == IF a = "increase_cooling" THEN 10000 ELSE 5000

\* The ramp interval whose callback the step runs.
C36_Consumed(r) ==
    /\ r.kind = "ramp" /\ r.due = now /\ r.sensorType = last'.arg
    /\ CopiesIn(r, timers') < CopiesIn(r, timers)

C37_Channel == IF last'.op = "backupTimeout" THEN "power" ELSE last'.arg

C37_Channels == {"power", "pressure", "temperature"}

\* C37: the completion of a remedial action (the delayed callback of
\* switch_backup_power, or the 10th step of a pressure or cooling ramp) runs
\* the scenario-end routine whatever the scenario is: afterwards no scenario
\* is active, the state is NORMAL with stability 100, the scheduled flag is
\* set and one more restart timer is pending, also when no scenario was
\* active before; the channels the action does not target keep their values.
C37_EndRoutineUnconditional ==
    [][EndRoutineRuns =>
        /\ sim'.activeScenario = NoScenario
        /\ sim'.state = "NORMAL"
        /\ sim'.stability = 100
        /\ sim'.scenarioScheduled
        /\ sim'.lastScenarioEndTime = now
        /\ CopiesIn(RestartTimer(now + SCENARIO_DELAY), timers')
              = CopiesIn(RestartTimer(now + SCENARIO_DELAY), timers) + 1
        /\ \A ch \in C37_Channels \ {C37_Channel} :
              sim'.sensors[ch] = sim.sensors[ch]
        /\ sim'.sensors[C37_Channel] = TargetValue(C37_Channel)]_vars

\* A pressure ramp has just completed during a fault that lowered the power:
\* the line is NORMAL with stability 100 and no scenario while the power
\* reading is still below its warning threshold.
C37_Witness ==
    /\ last.op = "rampStep" /\ last.arg = "pressure" /\ last.prevActive
    /\ sim.activeScenario = NoScenario
    /\ sim.state = "NORMAL" /\ sim.stability = 100
    /\ GetSensorStatus(sim, "power") # "normal"
    /\ Pending("ramp") = {}
    /\ Pending("restart") # {}

\* ---------------------------------------------------------------------- C38
\* C38: in every reachable state, scenarioScheduled = true implies that no
\* scenario is active (the scheduled and the active phase of the scenario
\* life cycle exclude each other).
C38_ScheduledExcludesActive ==
    sim.scenarioScheduled => ~sim.activeScenario.active

\* The scenario-end routine has just ended an active scenario while an
\* earlier restart was still pending: the flag is set, two restarts are
\* pending and no scenario is active.
C38_Witness ==
    /\ last.op \in {"backupTimeout", "rampStep"} /\ last.prevActive
    /\ sim.scenarioScheduled
    /\ ~sim.activeScenario.active
    /\ Cardinality(Pending("restart")) >= 2

C40_Upper(st) ==
    CASE st = "normal" -> "NOMINAL"
      [] st = "warning" -> "WARNING"
      [] st = "critical" -> "CRITICAL"

\* The readings (hundredths) the two classifications are compared on.
C40_Values == (0 - MaxReading * Scale) .. (MaxReading * Scale)

\* The classes the thresholds 32 / 38 kW, 125 / 135 bar and 75 / 85 degrees
\* give a reading v (hundredths).
C40_Class(name, v) ==
    CASE name = "power" ->
            IF v <= 3200 THEN "CRITICAL" ELSE IF v <= 3800 THEN "WARNING"
            ELSE "NOMINAL"
      [] name = "pressure" ->
            IF v <= 12500 THEN "CRITICAL" ELSE IF v <= 13500 THEN "WARNING"
            ELSE "NOMINAL"
      [] name = "temperature" ->
            IF v >= 8500 THEN "CRITICAL" ELSE IF v >= 7500 THEN "WARNING"
            ELSE "NOMINAL"

====
